---------------------------- MODULE Spec2Model ----------------------------
(***************************************************************************)
(* Model of aml_converter.py (AML to Excel converter).                     *)
(*                                                                         *)
(* Three specifications share this module:                                 *)
(*   SpecParse   parse_aml_file over bounded documents;                    *)
(*   SpecFilter  the value extractors and apply_filter over bounded        *)
(*               frames and filter settings;                               *)
(*   Spec        process_and_export_data: prepare, copy the template,      *)
(*               load, set up the sheets, write the pages, save.           *)
(*                                                                         *)
(* A Python str is a sequence of one-character strings, so that regular    *)
(* expressions, prefixes and substrings are computed, not assumed.  A      *)
(* float is an integer in units of 10^-FracDigits.  None is <<>> and a     *)
(* number n is <<n>> wherever the code holds "a float or None".            *)
(***************************************************************************)
EXTENDS Integers, Sequences, FiniteSets, TLC

VARIABLES
    \* ---- parse_aml_file
    doc,            \* the document: its element nodes in document order
    ppc,            \* position of parse_aml_file
    dpos,           \* the device loop's cursor into doc
    prows,          \* rows, the list parse_aml_file returns
    attrs,          \* the Attribute nodes of one interface, in document order
    apc,            \* position of the attribute loop of that interface
    apos,           \* the attribute loop's cursor into attrs
    row_data,       \* row_data of that interface
    \* ---- value extractors and apply_filter
    fpc,            \* which function was applied last
    value,          \* the argument of extract_number / is_analog_value
    num,            \* extract_number(value)
    analog,         \* is_analog_value(value)
    fdf,            \* the DataFrame handed to apply_filter
    fset,           \* (filter_column, filter_value, channel_type)
    fres,           \* the DataFrame apply_filter returns
    filter_type,    \* the choice _get_numeric_range_filter read: "3", "4" or "5"
    range_input,    \* the text _process_range_input read
    \* ---- process_and_export_data
    pc,             \* position of process_and_export_data
    rows,           \* its rows argument
    settings,       \* what get_filter_settings returned
    df,             \* the prepared DataFrame
    template,       \* the template file: [exists, book]
    output,         \* the file at output_file: "absent", "copied", "saved"
    wb,             \* the loaded workbook: sheet name -> sheet
    worksheets,     \* the list _setup_excel_worksheets returns
    page            \* the write loop's cursor into worksheets

parseVars  == <<doc, ppc, dpos, prows, attrs, apc, apos, row_data>>
filterVars == <<fpc, value, num, analog, fdf, fset, fres, filter_type, range_input>>
exportVars == <<pc, rows, settings, df, template, output, wb, worksheets, page>>
vars       == <<parseVars, filterVars, exportVars>>

---------------------------------------------------------------------------
(* Bounds of the model.                                                    *)
MaxLen      == 3    \* longest string handed to the value extractors
FracDigits  == 3    \* decimal digits kept of a float
MaxFrame    == 2    \* most rows of a frame handed to apply_filter alone
MaxNodes    == 4    \* most element nodes of a document
MaxRows     == 105  \* most rows handed to process_and_export_data
TemplateRows == 3   \* data rows a template sheet may already hold

---------------------------------------------------------------------------
(* CONFIG, lines 12-29.                                                    *)
MAX_ROWS_PER_SHEET == 52
DATA_START_ROW     == 4
COLUMN_MAPPING ==
    [InterfaceName |-> "E", Comment |-> "AD", IoType |-> "Q", LogicalAddress |-> "S"]
SourceColumns == <<"InterfaceName", "Comment", "IoType", "LogicalAddress">>
MappedColumns == {SourceColumns[i] : i \in DOMAIN SourceColumns}

---------------------------------------------------------------------------
(* Strings and numbers.                                                    *)
None    == <<>>
Some(n) == <<n>>
Empty   == <<>>            \* the empty str ''
NaN     == <<"NaN">>       \* pandas' missing value; no str has this symbol

Letters ==
    {"A","B","C","D","E","F","G","H","I","J","K","L","M","N","O","P","Q","R",
     "S","T","U","V","W","X","Y","Z",
     "a","b","c","d","e","f","g","h","i","j","k","l","m","n","o","p","q","r",
     "s","t","u","v","w","x","y","z"}
Digits  == {"0","1","2","3","4","5","6","7","8","9"}
Signs   == {"-","+"}

DigitVal(c) ==
    CASE c = "0" -> 0 [] c = "1" -> 1 [] c = "2" -> 2 [] c = "3" -> 3
      [] c = "4" -> 4 [] c = "5" -> 5 [] c = "6" -> 6 [] c = "7" -> 7
      [] c = "8" -> 8 [] c = "9" -> 9

RECURSIVE Pow10(_)
Pow10(k) == IF k = 0 THEN 1 ELSE 10 * Pow10(k - 1)

Scale == Pow10(FracDigits)

isna(v) == v = NaN

\* str.replace(',', '.')
ReplaceComma(s) == [i \in DOMAIN s |-> IF s[i] = "," THEN "." ELSE s[i]]

\* The end (exclusive) of the longest run of digits of s that starts at i.
RECURSIVE DigitRunEnd(_, _)
DigitRunEnd(s, i) ==
    IF i <= Len(s) /\ s[i] \in Digits THEN DigitRunEnd(s, i + 1) ELSE i

\* The value of the digits s[i..j-1] read as a natural number.
RECURSIVE IntOf(_, _, _)
IntOf(s, i, j) ==
    IF i >= j THEN 0 ELSE IntOf(s, i, j - 1) * 10 + DigitVal(s[j - 1])

\* The value of the digits s[i..j-1] read as a decimal fraction, scaled.
RECURSIVE FracOf(_, _, _, _)
FracOf(s, i, j, k) ==
    IF i >= j \/ k > FracDigits THEN 0
    ELSE DigitVal(s[i]) * Pow10(FracDigits - k) + FracOf(s, i + 1, j, k + 1)

\* A match of  [-+]?\d*\.\d+|[-+]?\d+  that starts at i: None, or
\* <<[end, val]>> with val = float(match), scaled.  The first alternative is
\* tried first; \d* and \d+ are greedy.
MatchAt(s, i) ==
    LET signed == s[i] \in Signs
        j   == IF signed THEN i + 1 ELSE i
        sgn == IF signed /\ s[i] = "-" THEN -1 ELSE 1
        k   == DigitRunEnd(s, j)
        m   == DigitRunEnd(s, k + 1)
    IN  IF k <= Len(s) /\ s[k] = "." /\ m > k + 1
        THEN Some([end |-> m,
                   val |-> sgn * (IntOf(s, j, k) * Scale + FracOf(s, k + 1, m, 1))])
        ELSE IF k > j
        THEN Some([end |-> k, val |-> sgn * IntOf(s, j, k) * Scale])
        ELSE None

\* numbers[0] of re.findall: the leftmost match.
RECURSIVE FirstMatch(_, _)
FirstMatch(s, i) ==
    IF i > Len(s) THEN None
    ELSE IF MatchAt(s, i) # None THEN MatchAt(s, i)
    ELSE FirstMatch(s, i + 1)

extract_number(v) ==
    IF isna(v) \/ v = Empty THEN None
    ELSE LET numbers == FirstMatch(ReplaceComma(v), 1)
         IN  IF numbers # None THEN Some(numbers[1].val) ELSE None

\* A slip is_analog_value could have: the W prefix is not counted as a letter.
is_analog_value_skipping_prefix(v) ==
    IF isna(v) \/ v = Empty THEN FALSE
    ELSE \E i \in DOMAIN v : v[i] \in Letters /\ ~(i = 1 /\ v[i] \in {"W", "w"})

is_analog_value(v) ==
    IF isna(v) \/ v = Empty THEN FALSE
    ELSE \E i \in DOMAIN v : v[i] \in Letters

Upper(c) == IF c = "w" THEN "W" ELSE c

remove_w_prefix(v) ==
    IF isna(v) \/ v = Empty THEN v
    ELSE IF Upper(v[1]) = "W" THEN SubSeq(v, 2, Len(v))
    ELSE v


---------------------------------------------------------------------------
(* DataFrames.  A frame is its set of columns and its rows in order; a row *)
(* keeps its index label (pandas keeps the labels of the rows a boolean    *)
(* mask selects).  A dict that lacks a column holds NaN there.             *)
NONE == "<None>"        \* None in a slot that otherwise holds a str

EmptyFrame == [columns |-> {}, data |-> <<>>]

Keys(rs) == UNION {DOMAIN rs[i] : i \in DOMAIN rs}

\* pd.DataFrame(rows)
DataFrame(rs) ==
    LET columns == Keys(rs)
    IN  [columns |-> columns,
         data    |-> [i \in DOMAIN rs |->
                        [idx   |-> i - 1,
                         cells |-> [c \in columns |->
                                      IF c \in DOMAIN rs[i] THEN rs[i][c] ELSE NaN]]]]

\* df[available_columns]
Project(d, cols) ==
    [columns |-> cols,
     data    |-> [i \in DOMAIN d.data |->
                    [idx |-> d.data[i].idx,
                     cells |-> [c \in cols |-> d.data[i].cells[c]]]]]

\* df[mask]: the rows the mask selects, in order, labels kept.
Select(d, Keep(_)) == [d EXCEPT !.data = SelectSeq(d.data, Keep)]

\* Filter values, as get_filter_settings builds them.
NotEmpty        == [kind |-> "not_empty", text |-> Empty, start |-> None, end |-> None]
Exact(t)        == [kind |-> "value", text |-> t, start |-> None, end |-> None]
Range(lo, hi)   == [kind |-> "range", text |-> Empty, start |-> lo, end |-> hi]
NoValue         == [kind |-> "none", text |-> Empty, start |-> None, end |-> None]

\* A slip of line 354: a discrete channel is any value without letters.
discrete_keep_without_number(x) == ~is_analog_value(x)

\* line 354, the lambda of "only discrete"
discrete_keep(x) == ~is_analog_value(x) /\ extract_number(x) # None

\* lines 352-356: the channel-type pre-filter
PreFilter(d, filter_column, channel_type) ==
    IF filter_column = "LogicalAddress" /\ channel_type # NONE
    THEN IF channel_type = "2"
         THEN Select(d, LAMBDA r : discrete_keep(r.cells[filter_column]))
         ELSE IF channel_type = "3"
         THEN Select(d, LAMBDA r : is_analog_value(r.cells[filter_column]))
         ELSE d
    ELSE d

\* A slip of lines 372-380: the upper bound is exclusive.
numeric_mask_open_end(n, start, end) ==
    IF start # None /\ end # None
    THEN n # None /\ n[1] >= start[1] /\ n[1] < end[1]
    ELSE IF start # None THEN n # None /\ n[1] >= start[1]
    ELSE IF end # None THEN n # None /\ n[1] < end[1]
    ELSE TRUE

\* lines 372-383: the mask of one row; a comparison with NaN is False
numeric_mask(n, start, end) ==
    IF start # None /\ end # None
    THEN n # None /\ n[1] >= start[1] /\ n[1] <= end[1]
    ELSE IF start # None THEN n # None /\ n[1] >= start[1]
    ELSE IF end # None THEN n # None /\ n[1] <= end[1]
    ELSE TRUE

\* pd.Series([True] * len(df)) carries the labels 0..len-1; df.loc[mask]
\* raises when the frame's own labels are others (line 383, 386).
Aligned(d) == \A i \in DOMAIN d.data : d.data[i].idx = i - 1

\* lines 358-392: the filter specification, on the pre-filtered frame
FilterSpec(d, filter_column, filter_value) ==
    IF filter_value.kind = "not_empty"
    THEN Select(d, LAMBDA r : ~isna(r.cells[filter_column])
                               /\ r.cells[filter_column] # Empty)
    ELSE IF filter_value.kind = "range" /\ filter_column = "LogicalAddress"
    THEN Select(d, LAMBDA r : numeric_mask(extract_number(r.cells[filter_column]),
                                           filter_value.start, filter_value.end))
    ELSE IF filter_value.kind = "list"
    THEN Select(d, LAMBDA r : r.cells[filter_column] \in filter_value.text)
    ELSE Select(d, LAMBDA r : filter_value.kind = "value"
                               /\ r.cells[filter_column] = filter_value.text)

\* lines 341-394
apply_filter(d, filter_column, filter_value, channel_type) ==
    IF filter_column = NONE THEN d
    ELSE IF filter_column \notin d.columns THEN d
    ELSE FilterSpec(PreFilter(d, filter_column, channel_type),
                    filter_column, filter_value)

\* Whether apply_filter raises instead of returning (lines 381-386).
apply_filter_raises(d, filter_column, filter_value, channel_type) ==
    /\ filter_column # NONE
    /\ filter_column \in d.columns
    /\ filter_value.kind = "range" /\ filter_column = "LogicalAddress"
    /\ filter_value.start = None /\ filter_value.end = None
    /\ ~Aligned(PreFilter(d, filter_column, channel_type))

---------------------------------------------------------------------------
(* get_filter_settings, lines 316-338: the settings it can return.  A      *)
(* range comes from _process_range_input (lines 299-310): both bounds, or  *)
(* one bound and None; a bound is float() of text without '-'.             *)
W10  == <<"W", "1", "0">>
W12  == <<"W", "1", "2">>
ABC  == <<"A", "B", "C">>
T20  == <<"2", "0">>
T9   == <<"9">>
A21  == <<"A", "2", "1">>
AB   == <<"A", "B">>
T12c5 == <<"1", "2", ",", "5">>
Dot  == <<".">>
Input  == <<"Input">>
Output == <<"Output">>
SigA   == <<"SigA">>
SigB   == <<"SigB">>

RangeBounds == {Some(10 * Scale), Some(20 * Scale)}

Ranges ==
    {Range(lo, hi) : lo \in RangeBounds, hi \in RangeBounds}
    \cup {Range(lo, None) : lo \in RangeBounds}
    \cup {Range(None, hi) : hi \in RangeBounds}

Setting(c, v, t) == [column |-> c, value |-> v, channel |-> t]

SettingsSet ==
    {Setting(NONE, NoValue, NONE)}
    \cup {Setting("IoType", v, NONE) : v \in {NotEmpty, Exact(Input), Exact(Output)}}
    \cup {Setting(c, v, NONE) : c \in {"InterfaceName", "Comment"},
                                 v \in {NotEmpty, Exact(SigA)}}
    \cup {Setting("LogicalAddress", v, t) :
              v \in {NotEmpty, Exact(T20)} \cup Ranges, t \in {"1", "2", "3"}}

---------------------------------------------------------------------------
(* SpecFilter: the value extractors and apply_filter as functions.         *)
Chars == {"W", "A", "B", "C", "1", "2", ",", ".", "-"}

Strings(n) == UNION {[1..k -> Chars] : k \in 0..n}

\* Rows as _prepare_dataframe projects them (line 413).
FilterRowSamples ==
    {[LogicalAddress |-> W10,   IoType |-> Input],
     [LogicalAddress |-> T20,   IoType |-> Output],
     [LogicalAddress |-> T9,    IoType |-> Input],
     [LogicalAddress |-> A21,   IoType |-> Empty],
     [LogicalAddress |-> AB,    IoType |-> Input],
     [LogicalAddress |-> T12c5, IoType |-> Output],
     [LogicalAddress |-> Dot,   IoType |-> Input],
     [LogicalAddress |-> Empty, IoType |-> Input],
     [IoType |-> Input]}

Frames(n) == UNION {[1..k -> FilterRowSamples] : k \in 0..n}

ExportIdle ==
    /\ pc = "idle" /\ rows = <<>> /\ settings = Setting(NONE, NoValue, NONE)
    /\ df = EmptyFrame /\ template = [exists |-> FALSE, book |-> <<>>]
    /\ output = "absent" /\ wb = <<>> /\ worksheets = <<>> /\ page = 0

AttrIdle == attrs = <<>> /\ apc = "idle" /\ apos = 0 /\ row_data = <<>>

ParseIdle == doc = <<>> /\ ppc = "idle" /\ dpos = 0 /\ prows = <<>> /\ AttrIdle

FilterIdle ==
    /\ fpc = "idle" /\ value = Empty /\ num = None /\ analog = FALSE
    /\ fdf = EmptyFrame /\ fset = Setting(NONE, NoValue, NONE) /\ fres = EmptyFrame
    /\ filter_type = NONE /\ range_input = Empty

FilterInit == FilterIdle /\ ParseIdle /\ ExportIdle

\* extract_number(v) and is_analog_value(v) for one value
Extract(v) ==
    /\ fpc = "idle"
    /\ fpc' = "extract"
    /\ value' = v
    /\ num' = extract_number(v)
    /\ analog' = is_analog_value(v)
    /\ UNCHANGED <<fdf, fset, fres, filter_type, range_input, parseVars, exportVars>>

\* apply_filter(df, filter_column, filter_value, channel_type) for one frame
Filter(rs, s) ==
    /\ fpc = "idle"
    /\ ~apply_filter_raises(DataFrame(rs), s.column, s.value, s.channel)
    /\ fpc' = "filter"
    /\ fdf' = DataFrame(rs)
    /\ fset' = s
    /\ fres' = apply_filter(DataFrame(rs), s.column, s.value, s.channel)
    /\ UNCHANGED <<value, num, analog, filter_type, range_input, parseVars, exportVars>>

FilterNext ==
    \/ \E v \in Strings(MaxLen) \cup {NaN} : Extract(v)
    \/ \E rs \in Frames(MaxFrame), s \in SettingsSet : Filter(rs, s)

SpecFilter == FilterInit /\ [][FilterNext]_vars

---------------------------------------------------------------------------
(* Claims on the value extractors and the filter engine.                   *)

\* The closed interval of the claim: a present number, within each given bound.
InClosedInterval(n, lo, hi) ==
    /\ n # None
    /\ (lo # None => n[1] >= lo[1])
    /\ (hi # None => n[1] <= hi[1])

RangeCase ==
    /\ fpc = "filter"
    /\ fset.column = "LogicalAddress"
    /\ fset.value.kind = "range"
    /\ "LogicalAddress" \in fdf.columns

C5_AsStated ==
    fpc = "extract" =>
        /\ value = W12 => analog = FALSE
        /\ value = ABC => analog = TRUE
        /\ value \in {Empty, NaN} => analog = FALSE

\* C5 amended: is_analog_value is true for "W12" (the W is a letter), true
\* for "ABC", false for the empty string and for a missing value.
C5_Amended ==
    fpc = "extract" =>
        /\ value = W12 => analog = TRUE
        /\ value = ABC => analog = TRUE
        /\ value \in {Empty, NaN} => analog = FALSE

C5_Witness == fpc = "extract" /\ value = W12 /\ analog = TRUE

\* What the claim says each channel type keeps.
ChannelKeeps(t, x) ==
    IF t = "2" THEN ~is_analog_value(x) /\ extract_number(x) # None
    ELSE IF t = "3" THEN is_analog_value(x)
    ELSE TRUE

\* C6: on LogicalAddress the pre-filter keeps exactly the non-analog rows
\* with an extractable number for "discrete", exactly the analog rows for
\* "analog" and every row for "all"; the filter specification then runs on
\* what the pre-filter kept; on any other column the channel type changes
\* nothing.
C6_ChannelPreFilter ==
    fpc = "filter" =>
        /\ "LogicalAddress" \in fdf.columns =>
              \A t \in {"1", "2", "3"} :
                  PreFilter(fdf, "LogicalAddress", t).data =
                      SelectSeq(fdf.data,
                                LAMBDA r : ChannelKeeps(t, r.cells["LogicalAddress"]))
        /\ (fset.column = "LogicalAddress" /\ "LogicalAddress" \in fdf.columns) =>
              fres = FilterSpec(
                        Select(fdf, LAMBDA r :
                                 ChannelKeeps(fset.channel, r.cells["LogicalAddress"])),
                        "LogicalAddress", fset.value)
        /\ fset.column \notin {"LogicalAddress", NONE} =>
              \A t \in {"1", "2", "3", NONE} :
                  apply_filter(fdf, fset.column, fset.value, t) = fres

\* "discrete" with a not-empty filter drops an analog row and a row without
\* number and keeps a numeric row.
C6_Witness ==
    /\ fpc = "filter"
    /\ fset.column = "LogicalAddress" /\ fset.channel = "2"
    /\ "LogicalAddress" \in fdf.columns
    /\ fset.value.kind = "not_empty"
    /\ Len(fres.data) = 1
    /\ \E i \in DOMAIN fdf.data : is_analog_value(fdf.data[i].cells["LogicalAddress"])

---------------------------------------------------------------------------
(* _process_range_input, lines 284-313, and SpecRange: the settings        *)
(* get_filter_settings returns for a range choice on LogicalAddress, then  *)
(* apply_filter with them.                                                 *)
(* The texts are over RangeChars.  Of what float() accepts, the alphabet   *)
(* holds digits and the point ("-" is the separator and never reaches      *)
(* float); it holds no whitespace, no underscore, no exponent and no       *)
(* "inf" or "nan".                                                         *)
MaxText == 4    \* longest text typed at the range prompt

RangeChars == {"W", "w", "1", "2", "-", ".", "A"}

RangeTexts(n) == UNION {[1..k -> RangeChars] : k \in 0..n}

\* str.upper(); w is the only lower-case letter of the alphabet
upper(s) == [i \in DOMAIN s |-> Upper(s[i])]

\* A slip of line 297: only a leading W is removed.
replace_leading_W(s) == IF s # Empty /\ s[1] = "W" THEN Tail(s) ELSE s

\* line 297: .replace('W', '')
replace_W(s) == SelectSeq(s, LAMBDA c : c # "W")

\* str.split(sep)
RECURSIVE split(_, _)
split(s, sep) ==
    IF \E i \in DOMAIN s : s[i] = sep
    THEN LET i == CHOOSE i \in DOMAIN s :
                      s[i] = sep /\ \A j \in 1..(i - 1) : s[j] # sep
         IN  <<SubSeq(s, 1, i - 1)>> \o split(SubSeq(s, i + 1, Len(s)), sep)
    ELSE <<s>>

\* Whether float(s) raises ValueError: s is not [sign] digits [. digits]
\* with at least one digit.
float_raises(s) ==
    LET j == IF s # Empty /\ s[1] \in Signs THEN 2 ELSE 1
        k == DigitRunEnd(s, j)
        m == IF k <= Len(s) /\ s[k] = "." THEN DigitRunEnd(s, k + 1) ELSE k
    IN  ~(m = Len(s) + 1 /\ (k > j \/ m > k + 1))

\* float(s), scaled, where it does not raise
float(s) ==
    LET signed == s[1] \in Signs
        j   == IF signed THEN 2 ELSE 1
        sgn == IF signed /\ s[1] = "-" THEN -1 ELSE 1
        k   == DigitRunEnd(s, j)
        m   == IF k <= Len(s) /\ s[k] = "." THEN DigitRunEnd(s, k + 1) ELSE k
    IN  sgn * (IntOf(s, j, k) * Scale + FracOf(s, k + 1, m, 1))

\* lines 295-313.  Unpacking map(float, parts) into (start, end) raises
\* ValueError unless there are exactly two parts; every ValueError is
\* caught at line 311.
process_range_input(ft, text) ==
    LET parts == split(replace_W(upper(text)), "-")
    IN  IF ft = "3"
        THEN IF Len(parts) = 2 /\ ~float_raises(parts[1]) /\ ~float_raises(parts[2])
             THEN Range(Some(float(parts[1])), Some(float(parts[2])))
             ELSE NotEmpty
        ELSE IF ft = "4"
        THEN IF ~float_raises(parts[1])
             THEN Range(Some(float(parts[1])), None)
             ELSE NotEmpty
        ELSE IF ~float_raises(parts[Len(parts)])
             THEN Range(None, Some(float(parts[Len(parts)])))
             ELSE NotEmpty

\* Frames as _prepare_dataframe hands them to apply_filter (line 416); the
\* second has no LogicalAddress column, the third a row without the key.
RangeFrames ==
    {<<[LogicalAddress |-> W10, IoType |-> Input],
       [LogicalAddress |-> AB,  IoType |-> Input]>>,
     <<[IoType |-> Input]>>,
     <<[LogicalAddress |-> <<"2">>, IoType |-> Output],
       [IoType |-> Input],
       [LogicalAddress |-> <<"W", "1">>, IoType |-> Input]>>}

\* get_filter_settings, lines 319-338, for the column LogicalAddress and a
\* filter type 3, 4 or 5 (lines 280-281)
GetRangeSettings(t, ft, text) ==
    /\ fpc = "idle"
    /\ fpc' = "settings"
    /\ filter_type' = ft
    /\ range_input' = text
    /\ fset' = Setting("LogicalAddress", process_range_input(ft, text), t)
    /\ UNCHANGED <<value, num, analog, fdf, fres, parseVars, exportVars>>

\* line 416: apply_filter with the settings read
ApplyRange(rs) ==
    /\ fpc = "settings"
    /\ ~apply_filter_raises(DataFrame(rs), fset.column, fset.value, fset.channel)
    /\ fpc' = "applied"
    /\ fdf' = DataFrame(rs)
    /\ fres' = apply_filter(DataFrame(rs), fset.column, fset.value, fset.channel)
    /\ UNCHANGED <<value, num, analog, fset, filter_type, range_input,
                   parseVars, exportVars>>

RangeNext ==
    \/ /\ fpc = "idle"
       /\ \E t \in {"1", "2", "3"}, ft \in {"3", "4", "5"},
              text \in RangeTexts(MaxText) : GetRangeSettings(t, ft, text)
    \/ \E rs \in RangeFrames : ApplyRange(rs)

SpecRange == FilterInit /\ [][RangeNext]_vars

---------------------------------------------------------------------------
(* Claims on the range input.                                              *)

\* The text without any W or w.
WithoutW(s) == SelectSeq(s, LAMBDA c : c \notin {"W", "w"})

\* The text without one leading W or w.
WithoutLeadingW(s) == IF s # Empty /\ s[1] \in {"W", "w"} THEN Tail(s) ELSE s

Dashes(s) == {i \in DOMAIN s : s[i] = "-"}

\* What stands before the first dash and after the last one.
BeforeFirstDash(s) ==
    IF Dashes(s) = {} THEN s
    ELSE SubSeq(s, 1, (CHOOSE i \in Dashes(s) : \A j \in Dashes(s) : i <= j) - 1)

AfterLastDash(s) ==
    IF Dashes(s) = {} THEN s
    ELSE SubSeq(s, (CHOOSE i \in Dashes(s) : \A j \in Dashes(s) : i >= j) + 1, Len(s))

IsNumber(s) == ~float_raises(s)

RangeRead == fpc \in {"settings", "applied"}

\* The three forms of the claim: "A-B", "A-" and "-B" with numbers A and B.
IsFullRange(s) ==
    Cardinality(Dashes(s)) = 1 /\ IsNumber(BeforeFirstDash(s)) /\ IsNumber(AfterLastDash(s))
IsOpenLower(s) ==
    Cardinality(Dashes(s)) = 1 /\ IsNumber(BeforeFirstDash(s)) /\ AfterLastDash(s) = Empty
IsOpenUpper(s) ==
    Cardinality(Dashes(s)) = 1 /\ BeforeFirstDash(s) = Empty /\ IsNumber(AfterLastDash(s))

\* C11 as stated, each form read under the filter type that asks for it:
\* after stripping a leading W/w, "A-B" yields (A, B), "A-" yields (A, None),
\* "-B" yields (None, B), and a text of none of the three forms (a part that
\* is no number, a missing part, too many parts) yields not_empty.
C11_AsStated ==
    RangeRead =>
        LET s == WithoutLeadingW(range_input)
            A == Some(float(BeforeFirstDash(s)))
            B == Some(float(AfterLastDash(s)))
        IN  /\ (filter_type = "3" /\ IsFullRange(s)) => fset.value = Range(A, B)
            /\ (filter_type = "4" /\ IsOpenLower(s)) => fset.value = Range(A, None)
            /\ (filter_type = "5" /\ IsOpenUpper(s)) => fset.value = Range(None, B)
            /\ ~(IsFullRange(s) \/ IsOpenLower(s) \/ IsOpenUpper(s)) =>
                  fset.value = NotEmpty

\* C11 amended: _process_range_input returns for every text, after removing
\* every W/w of it.  Filter type 3 yields (A, B) when the text has exactly one
\* dash with a number on each side; type 4 yields (A, None) when the part
\* before the first dash is a number, whatever follows; type 5 yields
\* (None, B) when the part after the last dash is a number, whatever
\* precedes; every other text yields not_empty.  apply_filter raises on none
\* of these settings, and returns the frame unchanged when it has no
\* LogicalAddress column.
C11_Amended ==
    RangeRead =>
        LET s == WithoutW(range_input)
            A == Some(float(BeforeFirstDash(s)))
            B == Some(float(AfterLastDash(s)))
        IN  /\ fset.column = "LogicalAddress"
            /\ filter_type = "3" =>
                  fset.value = (IF IsFullRange(s) THEN Range(A, B) ELSE NotEmpty)
            /\ filter_type = "4" =>
                  fset.value = (IF IsNumber(BeforeFirstDash(s))
                                THEN Range(A, None) ELSE NotEmpty)
            /\ filter_type = "5" =>
                  fset.value = (IF IsNumber(AfterLastDash(s))
                                THEN Range(None, B) ELSE NotEmpty)
            /\ \A rs \in RangeFrames :
                  ~apply_filter_raises(DataFrame(rs), fset.column, fset.value,
                                       fset.channel)
            /\ (fpc = "applied" /\ "LogicalAddress" \notin fdf.columns) =>
                  fres = fdf

\* The text "1-W2" read as the full range (1, 2) and applied to a frame of
\* which it keeps rows.
C11_Witness ==
    /\ fpc = "applied"
    /\ filter_type = "3"
    /\ range_input = <<"1", "-", "W", "2">>
    /\ fset.value = Range(Some(1 * Scale), Some(2 * Scale))
    /\ "LogicalAddress" \in fdf.columns
    /\ Len(fres.data) = 2

---------------------------------------------------------------------------
(* SpecParse: parse_aml_file, lines 68-127.                                *)
(* A document is the sequence of its InternalElement and ExternalInterface *)
(* nodes in document order, each with its depth below the root (the root   *)
(* itself is not searched by findall('.//...')).  Node j lies in the       *)
(* subtree of node i iff j follows i and every node from i+1 to j is       *)
(* deeper than i.  The Attribute nodes of an interface are the subject of  *)
(* SpecAttrs, at the end of the module.                                    *)
Absent == <<"<absent>">>      \* an XML attribute the element does not carry

Rack_0   == <<"R", "a", "c", "k", "_", "0">>
URail    == <<"U", "R", "a", "i", "l">>
Mod      == <<"M", "o", "d">>
LibRack  == <<"L", "/", "R">>
N_A      == <<"N", "/", "A">>

DeviceSamples ==
    {[tag |-> "InternalElement", Name |-> Rack_0, RefBaseClassPath |-> LibRack],
     [tag |-> "InternalElement", Name |-> URail,  RefBaseClassPath |-> Absent],
     [tag |-> "InternalElement", Name |-> Mod,    RefBaseClassPath |-> LibRack],
     [tag |-> "InternalElement", Name |-> Absent, RefBaseClassPath |-> Absent]}

InterfaceSamples ==
    {[tag |-> "ExternalInterface", Name |-> SigA, RefBaseClassPath |-> Absent]}

Documents(n) ==
    UNION {
      {d \in [1..k -> [elem : DeviceSamples \cup InterfaceSamples, depth : 1..k]] :
          /\ k > 0 => d[1].depth = 1
          /\ \A i \in 2..k : d[i].depth <= d[i - 1].depth + 1}
      : k \in 0..n}

\* elem.get(key, default)
Get(attr, default) == IF attr = Absent THEN default ELSE attr

\* kw in device_name
Contains(kw, name) ==
    \E i \in 1..(Len(name) - Len(kw) + 1) : SubSeq(name, i, i + Len(kw) - 1) = kw

Keywords == {<<"R", "a", "c", "k">>, <<"R", "a", "i", "l">>}

\* A slip of line 88: the name must start with the keyword.
HasKeyword_at_start(device_name) ==
    \E kw \in Keywords :
        Len(device_name) >= Len(kw) /\ SubSeq(device_name, 1, Len(kw)) = kw

\* line 88: any(kw in device_name for kw in ["Rack", "Rail"])
HasKeyword(device_name) == \E kw \in Keywords : Contains(kw, device_name)

\* path.split('/')[-1]
RECURSIVE LastSegment(_)
LastSegment(path) ==
    IF \E i \in DOMAIN path : path[i] = "/"
    THEN LastSegment(Tail(path))
    ELSE path

\* lines 91-92
DeviceType(e) ==
    IF e.RefBaseClassPath # Absent /\ e.RefBaseClassPath # Empty
    THEN LastSegment(Get(e.RefBaseClassPath, N_A))
    ELSE N_A

InSubtree(d, i, j) == j > i /\ \A k \in (i + 1)..j : d[k].depth > d[i].depth

\* elem.findall('.//caex:<tag>'): the positions, in document order
FindAll(d, i, tag) ==
    {j \in DOMAIN d : d[j].elem.tag = tag /\ (i = 0 \/ InSubtree(d, i, j))}

RECURSIVE SortedSeq(_)
SortedSeq(S) ==
    IF S = {} THEN <<>>
    ELSE LET m == CHOOSE x \in S : \A y \in S : x <= y
         IN  <<m>> \o SortedSeq(S \ {m})

\* lines 95-120 for one device: a row per interface in its subtree.  The
\* fields device and interface record which nodes the row was built from.
InterfaceRows(d, i) ==
    LET found == SortedSeq(FindAll(d, i, "ExternalInterface"))
    IN  [k \in DOMAIN found |->
            [DeviceName    |-> Get(d[i].elem.Name, N_A),
             DeviceType    |-> DeviceType(d[i].elem),
             InterfaceName |-> Get(d[found[k]].elem.Name, N_A),
             device        |-> i,
             interface     |-> found[k]]]

\* The next InternalElement after position i, or 0.
NextDevice(d, i) ==
    LET later == {j \in FindAll(d, 0, "InternalElement") : j > i}
    IN  IF later = {} THEN 0 ELSE CHOOSE j \in later : \A k \in later : j <= k

ParseInit ==
    /\ doc \in Documents(MaxNodes)
    /\ ppc = "loop" /\ dpos = 0 /\ prows = <<>>
    /\ AttrIdle /\ FilterIdle /\ ExportIdle

\* lines 84-89: a device without keyword is skipped
SkipDevice ==
    /\ ppc = "loop"
    /\ NextDevice(doc, dpos) # 0
    /\ ~HasKeyword(Get(doc[NextDevice(doc, dpos)].elem.Name, N_A))
    /\ dpos' = NextDevice(doc, dpos)
    /\ UNCHANGED <<doc, ppc, prows, attrs, apc, apos, row_data, filterVars, exportVars>>

\* lines 84-120: a device with a keyword contributes its interfaces' rows
ParseDevice ==
    /\ ppc = "loop"
    /\ NextDevice(doc, dpos) # 0
    /\ HasKeyword(Get(doc[NextDevice(doc, dpos)].elem.Name, N_A))
    /\ dpos' = NextDevice(doc, dpos)
    /\ prows' = prows \o InterfaceRows(doc, NextDevice(doc, dpos))
    /\ UNCHANGED <<doc, ppc, attrs, apc, apos, row_data, filterVars, exportVars>>

\* line 122
ReturnRows ==
    /\ ppc = "loop"
    /\ NextDevice(doc, dpos) = 0
    /\ ppc' = "done"
    /\ UNCHANGED <<doc, dpos, prows, attrs, apc, apos, row_data, filterVars, exportVars>>

ParseNext == SkipDevice \/ ParseDevice \/ ReturnRows

SpecParse == ParseInit /\ [][ParseNext]_vars

---------------------------------------------------------------------------
(* Claims on the parser.                                                   *)

\* The claim's marker test, spelled out on the characters.
NameHasMarker(name) ==
    \E i \in 1..Len(name) :
        /\ i + 3 <= Len(name)
        /\ name[i] = "R" /\ name[i + 1] = "a"
        /\ \/ name[i + 2] = "c" /\ name[i + 3] = "k"
           \/ name[i + 2] = "i" /\ name[i + 3] = "l"

IsDevice(j) == doc[j].elem.tag = "InternalElement"
NodeName(j) == Get(doc[j].elem.Name, N_A)

\* The device an interface belongs to: its nearest InternalElement ancestor.
Owners(j) ==
    {i \in DOMAIN doc :
        /\ IsDevice(i) /\ InSubtree(doc, i, j)
        /\ \A k \in DOMAIN doc : (IsDevice(k) /\ InSubtree(doc, k, j)) => k <= i}

MatchingAncestors(j) ==
    {i \in DOMAIN doc : IsDevice(i) /\ InSubtree(doc, i, j) /\ NameHasMarker(NodeName(i))}

---------------------------------------------------------------------------
(* Workbooks.  A workbook maps sheet titles to sheets; a sheet is its      *)
(* layout (headers, formatting: what copy_worksheet carries over) and the  *)
(* cells that hold a value, keyed by <<column letter, row>>.  A cell       *)
(* without value is absent from the map.                                   *)
BlankSheet == [layout |-> "blank", cells |-> <<>>]

Put(f, k, v) == [x \in DOMAIN f \cup {k} |-> IF x = k THEN v ELSE f[x]]

\* worksheet.max_row
max_row(ws) ==
    IF DOMAIN ws.cells = {} THEN 1
    ELSE CHOOSE r \in {a[2] : a \in DOMAIN ws.cells} :
            \A a \in DOMAIN ws.cells : a[2] <= r

\* line 466: ['C'] + list(CONFIG['COLUMN_MAPPING'].values())
DataColumns == {"C"} \cup {COLUMN_MAPPING[c] : c \in MappedColumns}

\* A slip of lines 463-469: nothing is cleared.
clear_worksheet_data_noop(ws) == ws

\* _clear_worksheet_data, lines 463-469
clear_worksheet_data(ws) ==
    LET last    == max_row(ws)
        cleared == {a \in DOMAIN ws.cells :
                       a[1] \in DataColumns /\ a[2] \in DATA_START_ROW..last}
    IN  [ws EXCEPT !.cells = [a \in DOMAIN ws.cells \ cleared |-> ws.cells[a]]]

\* A slip of line 433: the page count is rounded down.
sheets_needed_floor(total_rows) == total_rows \div MAX_ROWS_PER_SHEET

\* line 433: math.ceil(total_rows / MAX_ROWS_PER_SHEET)
sheets_needed(total_rows) ==
    IF total_rows % MAX_ROWS_PER_SHEET = 0
    THEN total_rows \div MAX_ROWS_PER_SHEET
    ELSE total_rows \div MAX_ROWS_PER_SHEET + 1

\* A slip of line 437: the suffix is the page index itself.
current_sheet_name_from_index(sheet_name, sheet_index) ==
    IF sheet_index > 0 THEN sheet_name \o "_" \o ToString(sheet_index)
    ELSE sheet_name

\* line 437
current_sheet_name(sheet_name, sheet_index) ==
    IF sheet_index > 0 THEN sheet_name \o "_" \o ToString(sheet_index + 1)
    ELSE sheet_name

\* lines 452-456: wb.copy_worksheet(wb[sheet_name]), retitled, then cleared
copy_for_page(book, sheet_name, title) ==
    Put(book, title, clear_worksheet_data(book[sheet_name]))

\* lines 437-456: one turn of the loop, on the workbook
setup_sheet(book, sheet_name, sheet_index) ==
    LET title == current_sheet_name(sheet_name, sheet_index)
    IN  IF title \in DOMAIN book
        THEN [book EXCEPT ![title] = clear_worksheet_data(book[title])]
        ELSE IF sheet_index = 0
        THEN IF sheet_name \notin DOMAIN book
             THEN Put(book, sheet_name, BlankSheet)
             ELSE book
        ELSE copy_for_page(book, sheet_name, title)

\* _setup_excel_worksheets, lines 431-460: the workbook and the list of
\* (worksheet, sheet_index) it ends with
RECURSIVE setup_loop(_, _, _, _)
setup_loop(book, sheet_name, sheet_index, needed) ==
    IF sheet_index >= needed THEN [book |-> book, worksheets |-> <<>>]
    ELSE LET rest == setup_loop(setup_sheet(book, sheet_name, sheet_index),
                                sheet_name, sheet_index + 1, needed)
         IN  [book |-> rest.book,
              worksheets |->
                  <<[title |-> current_sheet_name(sheet_name, sheet_index),
                     sheet_index |-> sheet_index]>> \o rest.worksheets]

setup_excel_worksheets(book, sheet_name, total_rows) ==
    setup_loop(book, sheet_name, 0, sheets_needed(total_rows))

\* line 477
excel_row(local_idx) == local_idx + DATA_START_ROW

\* _write_data_to_worksheet, lines 472-486.  The loop assigns, record after
\* record, column C and every mapped column the frame has; a cell assigned
\* twice would keep the later record's value.
write_data_to_worksheet(ws, sheet_data, columns) ==
    LET mapped  == MappedColumns \cap columns
        written == {<<"C", excel_row(k - 1)>> : k \in DOMAIN sheet_data}
                   \cup {<<COLUMN_MAPPING[c], excel_row(k - 1)>> :
                            c \in mapped, k \in DOMAIN sheet_data}
        Record(r) == CHOOSE k \in DOMAIN sheet_data :
                        /\ excel_row(k - 1) = r
                        /\ \A j \in DOMAIN sheet_data : excel_row(j - 1) = r => j <= k
    IN  [ws EXCEPT !.cells =
            [a \in DOMAIN ws.cells \cup written |->
                IF a \notin written THEN ws.cells[a]
                ELSE IF a[1] = "C" THEN sheet_data[Record(a[2])].cells["RowNumber"]
                ELSE sheet_data[Record(a[2])].cells[
                         CHOOSE c \in mapped : COLUMN_MAPPING[c] = a[1]]]]

\* lines 535-537: df.iloc[start_idx:end_idx]
Min(a, b) == IF a < b THEN a ELSE b

sheet_slice(d, sheet_index) ==
    SubSeq(d.data, sheet_index * MAX_ROWS_PER_SHEET + 1,
           Min((sheet_index + 1) * MAX_ROWS_PER_SHEET, Len(d.data)))

---------------------------------------------------------------------------
(* _prepare_dataframe, lines 397-428.                                      *)
available_columns(cols) == MappedColumns \cap cols

\* A slip of line 426: the number is taken from the row's label in the
\* unfiltered frame.
number_rows_by_label(d) ==
    [columns |-> d.columns \cup {"RowNumber"},
     data |-> [k \in DOMAIN d.data |->
                 [idx |-> d.data[k].idx,
                  cells |-> Put(d.data[k].cells, "RowNumber", d.data[k].idx + 1)]]]

\* line 426: df['RowNumber'] = range(1, len(df) + 1)
number_rows(d) ==
    [columns |-> d.columns \cup {"RowNumber"},
     data |-> [k \in DOMAIN d.data |->
                 [idx |-> d.data[k].idx,
                  cells |-> Put(d.data[k].cells, "RowNumber", k)]]]

\* lines 422-423
strip_addresses(d) ==
    IF "LogicalAddress" \in d.columns
    THEN [d EXCEPT !.data =
            [k \in DOMAIN d.data |->
                [d.data[k] EXCEPT !.cells["LogicalAddress"] = remove_w_prefix(@)]]]
    ELSE d

\* lines 403-416: the frame apply_filter returns
filtered_frame(rs, s) ==
    LET frame == DataFrame(rs)
    IN  apply_filter(Project(frame, available_columns(frame.columns)),
                     s.column, s.value, s.channel)

prepare_dataframe(rs, s) ==
    IF rs = <<>> THEN EmptyFrame
    ELSE IF available_columns(Keys(rs)) = {} THEN EmptyFrame
    ELSE LET filtered == filtered_frame(rs, s)
         IN  IF Len(filtered.data) = 0 THEN filtered
             ELSE number_rows(strip_addresses(filtered))

prepare_dataframe_raises(rs, s) ==
    /\ rs # <<>>
    /\ available_columns(Keys(rs)) # {}
    /\ apply_filter_raises(Project(DataFrame(rs), available_columns(Keys(rs))),
                           s.column, s.value, s.channel)

---------------------------------------------------------------------------
(* Spec: process_and_export_data, lines 489-547.                           *)
DEFAULT_SHEET_NAME == "L1"      \* CONFIG['DEFAULT_SHEET_NAME'], line 16

On  == <<"o", "n">>
Old == <<"old">>
Hdr == <<"hdr">>

\* Rows as parse_aml_file builds them (lines 96-120), and as a caller may
\* hand them over: the last one carries none of the four export columns.
ExportRowSamples ==
    {[DeviceName |-> Rack_0, DeviceType |-> N_A, InterfaceName |-> SigA,
      Comment |-> On, IoType |-> Input, LogicalAddress |-> W10],
     [DeviceName |-> Rack_0, DeviceType |-> N_A, InterfaceName |-> SigB,
      IoType |-> Output, LogicalAddress |-> A21],
     [DeviceName |-> URail, DeviceType |-> N_A, InterfaceName |-> SigA],
     [DeviceName |-> URail, DeviceType |-> N_A]}

Patterns == UNION {[1..k -> ExportRowSamples] : k \in 1..2}

Repeat(pat, n) == [i \in 1..n |-> pat[((i - 1) % Len(pat)) + 1]]

\* Row counts at and around the page boundaries.
InputSizes ==
    {n \in 0..MaxRows :
        n % MAX_ROWS_PER_SHEET \in {0, 1, 2, MAX_ROWS_PER_SHEET - 1}}

ExportSettings ==
    {Setting(NONE, NoValue, NONE),
     Setting("IoType", Exact(Input), NONE),
     Setting("Comment", NotEmpty, NONE),
     Setting("LogicalAddress", Range(Some(10 * Scale), Some(20 * Scale)), "1"),
     Setting("LogicalAddress", NotEmpty, "2"),
     Setting("LogicalAddress", NotEmpty, "3"),
     Setting("LogicalAddress", Exact(T20), "1")}

\* A template sheet that already holds data rows, a header cell and a cell
\* of a column the export does not own, below the data rows.
UsedSheet(layout) ==
    [layout |-> layout,
     cells  |-> [a \in (DataColumns \X (DATA_START_ROW..(DATA_START_ROW + TemplateRows - 1)))
                       \cup {<<"E", DATA_START_ROW - 1>>,
                             <<"A", DATA_START_ROW + TemplateRows>>} |->
                   IF a[2] < DATA_START_ROW THEN Hdr
                   ELSE IF a[1] = "C" THEN 999
                   ELSE Old]]

TemplateBooks ==
    {("Other" :> UsedSheet("other")),
     ("L1" :> UsedSheet("A3")),
     ("L1" :> UsedSheet("A3")) @@ ("L1_2" :> UsedSheet("A3 continued")),
     ("L1_2" :> UsedSheet("A3 continued"))}

Templates ==
    {[exists |-> FALSE, book |-> <<>>]}
    \cup {[exists |-> TRUE, book |-> b] : b \in TemplateBooks}

Init ==
    /\ pc = "start"
    /\ rows \in {Repeat(pat, n) : pat \in Patterns, n \in InputSizes}
    /\ template \in Templates
    /\ settings = Setting(NONE, NoValue, NONE)
    /\ df = EmptyFrame
    /\ output = "absent"
    /\ wb = <<>> /\ worksheets = <<>> /\ page = 0
    /\ FilterIdle /\ ParseIdle

\* lines 491-493
ReturnNoData ==
    /\ pc = "start"
    /\ rows = <<>>
    /\ pc' = "returned: no data"
    /\ UNCHANGED <<rows, settings, df, template, output, wb, worksheets, page,
                   parseVars, filterVars>>

\* lines 498-504: the first row decides
ReturnNoColumns ==
    /\ pc = "start"
    /\ rows # <<>>
    /\ MappedColumns \cap DOMAIN rows[1] = {}
    /\ pc' = "returned: no columns"
    /\ UNCHANGED <<rows, settings, df, template, output, wb, worksheets, page,
                   parseVars, filterVars>>

\* line 509
GetFilterSettings(s) ==
    /\ pc = "start"
    /\ rows # <<>>
    /\ MappedColumns \cap DOMAIN rows[1] # {}
    /\ settings' = s
    /\ pc' = "prepare"
    /\ UNCHANGED <<rows, df, template, output, wb, worksheets, page,
                   parseVars, filterVars>>

\* A slip of line 514: the empty frame is not noticed.
nothing_to_export_unnoticed(d) == FALSE

\* line 514
nothing_to_export(d) == Len(d.data) = 0

\* lines 512-516
PrepareDataframe ==
    /\ pc = "prepare"
    /\ IF prepare_dataframe_raises(rows, settings)
       THEN pc' = "raised" /\ df' = df
       ELSE /\ df' = prepare_dataframe(rows, settings)
            /\ pc' = IF nothing_to_export(df') THEN "returned: no rows"
                     ELSE "template"
    /\ UNCHANGED <<rows, settings, template, output, wb, worksheets, page,
                   parseVars, filterVars>>

\* lines 519-521
ReturnNoTemplate ==
    /\ pc = "template"
    /\ ~template.exists
    /\ pc' = "returned: no template"
    /\ UNCHANGED <<rows, settings, df, template, output, wb, worksheets, page,
                   parseVars, filterVars>>

\* line 524: shutil.copy2(template_file, output_file)
CopyTemplate ==
    /\ pc = "template"
    /\ template.exists
    /\ output' = "copied"
    /\ pc' = "load"
    /\ UNCHANGED <<rows, settings, df, template, wb, worksheets, page,
                   parseVars, filterVars>>

\* line 527: load_workbook(output_file)
LoadWorkbook ==
    /\ pc = "load"
    /\ wb' = template.book
    /\ pc' = "setup"
    /\ UNCHANGED <<rows, settings, df, template, output, worksheets, page,
                   parseVars, filterVars>>

\* line 527: load_workbook raises (the copy is not a workbook it can read);
\* nothing in process_and_export_data catches it
LoadWorkbookRaises ==
    /\ pc = "load"
    /\ pc' = "raised"
    /\ UNCHANGED <<rows, settings, df, template, output, wb, worksheets, page,
                   parseVars, filterVars>>

\* line 530
SetupWorksheets ==
    /\ pc = "setup"
    /\ LET r == setup_excel_worksheets(wb, DEFAULT_SHEET_NAME, Len(df.data))
       IN  wb' = r.book /\ worksheets' = r.worksheets
    /\ page' = 1
    /\ pc' = "write"
    /\ UNCHANGED <<rows, settings, df, template, output, parseVars, filterVars>>

\* lines 533-540: one turn of the write loop
WriteSheet ==
    /\ pc = "write"
    /\ page <= Len(worksheets)
    /\ wb' = [wb EXCEPT ![worksheets[page].title] =
                write_data_to_worksheet(@, sheet_slice(df, worksheets[page].sheet_index),
                                        df.columns)]
    /\ page' = page + 1
    /\ UNCHANGED <<pc, rows, settings, df, template, output, worksheets,
                   parseVars, filterVars>>

\* line 486: the assignment raises (openpyxl refuses to set a merged cell)
WriteSheetRaises ==
    /\ pc = "write"
    /\ page <= Len(worksheets)
    /\ pc' = "raised"
    /\ UNCHANGED <<rows, settings, df, template, output, wb, worksheets, page,
                   parseVars, filterVars>>

\* lines 543-547: wb.save(output_file)
SaveWorkbook ==
    /\ pc = "write"
    /\ page > Len(worksheets)
    /\ output' = "saved"
    /\ pc' = "done"
    /\ UNCHANGED <<rows, settings, df, template, wb, worksheets, page,
                   parseVars, filterVars>>

Next ==
    \/ ReturnNoData
    \/ ReturnNoColumns
    \/ \E s \in ExportSettings : GetFilterSettings(s)
    \/ PrepareDataframe
    \/ ReturnNoTemplate
    \/ CopyTemplate
    \/ LoadWorkbook
    \/ LoadWorkbookRaises
    \/ SetupWorksheets
    \/ WriteSheet
    \/ WriteSheetRaises
    \/ SaveWorkbook

Spec == Init /\ [][Next]_vars

---------------------------------------------------------------------------
(* Claims on the pipeline, the paginator and the template writer.          *)
N == Len(df.data)

\* ceil(n / 52), as the least number of pages of 52 that hold n records.
CeilPages(n) == CHOOSE p \in 0..n : p * 52 >= n /\ \A q \in 0..n : q * 52 >= n => p <= q

SheetOfPage(q) == wb[worksheets[q].title]

HasCell(ws, col, r) == <<col, r>> \in DOMAIN ws.cells

InDataRegion(a) == a[1] \in {"C", "E", "AD", "Q", "S"} /\ a[2] >= 4

\* Records on a sheet: the rows from 4 on whose index column holds a value.
RecordsOn(ws) == Cardinality({a \in DOMAIN ws.cells : a[1] = "C" /\ a[2] >= 4})

Exporting == pc \in {"write", "done"}

\* C2: for N >= 1 filtered records the export uses exactly ceil(N / 52)
\* pages; the record at global index i is written on page i // 52 at
\* spreadsheet row 4 + (i % 52); every page but the last holds exactly 52
\* records and no page more than 52.
C2_Pagination ==
    Exporting =>
        /\ N >= 1
        /\ Len(worksheets) = CeilPages(N)
        /\ \A q \in DOMAIN worksheets : worksheets[q].sheet_index = q - 1
        /\ \A i \in 0..(N - 1) :
              (i \div 52) + 1 < page =>
                  LET ws == SheetOfPage((i \div 52) + 1)
                      r  == 4 + (i % 52)
                  IN  /\ HasCell(ws, "C", r)
                      /\ ws.cells[<<"C", r>>] = df.data[i + 1].cells["RowNumber"]
                      /\ "InterfaceName" \in df.columns =>
                            /\ HasCell(ws, "E", r)
                            /\ ws.cells[<<"E", r>>] = df.data[i + 1].cells["InterfaceName"]
        /\ \A q \in DOMAIN worksheets :
              q < page =>
                  /\ RecordsOn(SheetOfPage(q)) <= 52
                  /\ q < Len(worksheets) => RecordsOn(SheetOfPage(q)) = 52
                  /\ q = Len(worksheets) => RecordsOn(SheetOfPage(q)) = N - 52 * (q - 1)

\* 105 records, exported on pages of 52, 52 and 1.
C2_Witness ==
    /\ pc = "done"
    /\ N = 105
    /\ Len(worksheets) = 3
    /\ RecordsOn(SheetOfPage(1)) = 52
    /\ RecordsOn(SheetOfPage(2)) = 52
    /\ RecordsOn(SheetOfPage(3)) = 1

Prepared == pc \in {"template", "load", "setup", "write", "done",
                    "returned: no template"}

\* C3: RowNumber is assigned after filtering, 1-based and contiguous: the
\* k-th surviving row, in original order, gets k, so the RowNumbers are
\* exactly 1..N whichever rows the filter removed; and the value written to
\* column C for the record at global index i is i + 1 on whatever page.
C3_RowNumbers ==
    (Prepared \/ (pc = "raised" /\ output # "absent")) =>
        /\ LET survivors == filtered_frame(rows, settings).data
           IN  /\ N = Len(survivors)
               /\ \A k \in 1..N : df.data[k].idx = survivors[k].idx
        /\ \A k \in 1..N :
              /\ df.data[k].cells["RowNumber"] = k
              /\ k > 1 => df.data[k - 1].idx < df.data[k].idx
        /\ {df.data[k].cells["RowNumber"] : k \in 1..N} = 1..N
        /\ Exporting =>
              \A i \in 0..(N - 1) :
                  (i \div 52) + 1 < page =>
                      /\ HasCell(SheetOfPage((i \div 52) + 1), "C", 4 + (i % 52))
                      /\ SheetOfPage((i \div 52) + 1).cells[<<"C", 4 + (i % 52)>>] = i + 1

\* A finished export in which the filter removed rows and the first record
\* of the second page shows 53.
C3_Witness ==
    /\ pc = "done"
    /\ N < Len(rows)
    /\ Len(worksheets) >= 2
    /\ df.data[53].idx > 52
    /\ SheetOfPage(2).cells[<<"C", 4>>] = 53

EarlyReturns == {"returned: no data", "returned: no columns", "returned: no rows"}

\* C7: process_and_export_data returns early and creates no output file
\* whenever there are no records, none of the four export columns is present
\* in the data, or no row survives filtering: the template is never copied
\* to the output path in such a run.
C7_EarlyReturnNoOutput ==
    /\ (pc # "start" /\ rows = <<>>) =>
          pc = "returned: no data" /\ output = "absent"
    /\ (pc # "start" /\ rows # <<>> /\ Keys(rows) \cap MappedColumns = {}) =>
          pc = "returned: no columns" /\ output = "absent"
    /\ (/\ pc \notin {"start", "prepare", "returned: no columns"}
        /\ rows # <<>>
        /\ Len(filtered_frame(rows, settings).data) = 0) =>
          pc = "returned: no rows" /\ output = "absent"
    /\ pc \in EarlyReturns => output = "absent"

\* A run whose rows all fall to the filter: returned, nothing at the output path.
C7_Witness ==
    /\ pc = "returned: no rows"
    /\ rows # <<>>
    /\ settings.column # NONE
    /\ template.exists
    /\ output = "absent"

\* C8: in every run that ends before wb.save, by an early return or by a
\* failure while loading the workbook, setting up the sheets or writing the
\* rows, no file exists at the output path as a result of the run.
C8_NoPartialOutput ==
    pc \in EarlyReturns \cup {"returned: no template", "raised"} => output = "absent"

\* The layout and the cells outside the data region: what clearing and
\* writing leave alone.
Outside(ws) ==
    [layout |-> ws.layout,
     cells  |-> [a \in {b \in DOMAIN ws.cells : ~InDataRegion(b)} |-> ws.cells[a]]]

NoDataRows(ws) == \A a \in DOMAIN ws.cells : ~InDataRegion(a)

ExpectedTitle(q) ==
    CASE q = 1 -> "L1" [] q = 2 -> "L1_2" [] q = 3 -> "L1_3" [] q = 4 -> "L1_4"
      [] OTHER -> "L1_" \o ToString(q)

SheetsPerPage ==
    /\ Len(worksheets) = CeilPages(N)
    /\ \A q \in DOMAIN worksheets :
          /\ worksheets[q].title = ExpectedTitle(q)
          /\ worksheets[q].title \in DOMAIN wb
          /\ \A o \in DOMAIN worksheets : o # q => worksheets[o].title # worksheets[q].title
          /\ q >= page => NoDataRows(SheetOfPage(q))

\* C9 as stated: one sheet per page with pairwise distinct names; page 0 is
\* the sheet named S, page p >= 1 the sheet named S_<p+1>, obtained by
\* duplicating sheet S and then clearing its data rows; no sheet holds a
\* data row of the template or of another page before its own are written.
C9_AsStated ==
    Exporting =>
        /\ SheetsPerPage
        /\ \A q \in DOMAIN worksheets :
              q >= 2 => Outside(SheetOfPage(q)) = Outside(wb["L1"])

\* C9 amended: as stated, except that page p >= 1 is the sheet named
\* S_<p+1> that the workbook already has, when it has one, and a duplicate
\* of sheet S only otherwise; and page 0 is the workbook's sheet S, or a new
\* empty sheet S when the workbook has none.  Either way the sheet's data
\* rows are cleared before its own records are written.
C9_Amended ==
    Exporting =>
        /\ SheetsPerPage
        /\ \A q \in DOMAIN worksheets :
              LET t == worksheets[q].title
              IN  IF t \in DOMAIN template.book
                  THEN Outside(wb[t]) = Outside(template.book[t])
                  ELSE IF q = 1 THEN Outside(wb[t]) = Outside(BlankSheet)
                  ELSE Outside(wb[t]) = Outside(wb["L1"])

\* Sheets set up for two pages or more, none written yet: the first one the
\* template's sheet L1, which held data rows, and the second a duplicate of it.
C9_Witness ==
    /\ pc = "write" /\ page = 1
    /\ Len(worksheets) >= 2
    /\ "L1" \in DOMAIN template.book
    /\ ~NoDataRows(template.book["L1"])
    /\ "L1_2" \notin DOMAIN template.book
    /\ Outside(wb["L1_2"]) = Outside(template.book["L1"])

\* The source column written to a spreadsheet column of the data region.
SourceOf(col) ==
    CASE col = "C" -> "RowNumber" [] col = "E" -> "InterfaceName"
      [] col = "AD" -> "Comment" [] col = "Q" -> "IoType" [] col = "S" -> "LogicalAddress"

\* The records of page q (1-based) of the prepared frame.
PageSlice(q) ==
    [k \in 1..(IF q * 52 <= N THEN 52 ELSE N - (q - 1) * 52) |-> df.data[(q - 1) * 52 + k]]

\* C10: after an export, the index column C and the mapped columns E, AD, Q
\* and S of any page's sheet hold, from row 4 on and in order, exactly the
\* RowNumbers and field values of that page's slice of the filtered record
\* set, and no further data rows (none left over from the template).
C10_RoundTrip ==
    pc = "done" =>
        \A q \in DOMAIN worksheets :
            LET ws  == SheetOfPage(q)
                rec == PageSlice(q)
            IN  /\ \A k \in DOMAIN rec :
                      \A col \in {"C", "E", "AD", "Q", "S"} :
                          SourceOf(col) \in df.columns =>
                              /\ HasCell(ws, col, 3 + k)
                              /\ ws.cells[<<col, 3 + k>>] = rec[k].cells[SourceOf(col)]
                /\ \A a \in DOMAIN ws.cells :
                      InDataRegion(a) =>
                          /\ a[2] - 3 \in DOMAIN rec
                          /\ SourceOf(a[1]) \in df.columns

\* A finished export whose last page is a sheet the template already had,
\* with more old data rows than the page has records.
C10_Witness ==
    /\ pc = "done"
    /\ Len(worksheets) = 2
    /\ "L1_2" \in DOMAIN template.book
    /\ RecordsOn(template.book["L1_2"]) > RecordsOn(wb["L1_2"])
    /\ RecordsOn(wb["L1_2"]) >= 1


---------------------------------------------------------------------------
(* SpecAttrs: the attribute loop of parse_aml_file, lines 96-120, for one  *)
(* interface.  attrs holds the Attribute nodes below the interface in      *)
(* document order, each with its depth below the interface (InSubtree      *)
(* reads it as for doc), its Name and the text of its direct Value child.  *)
(* Keys of row_data are strings; values are sequences of characters.       *)
MaxAttrs == 3   \* most Attribute nodes below an interface

\* Name is NONE when the element carries none; value is Absent when the
\* node has no Value child or the child has no text.
AttrNames  == {"A", "C", "D", NONE}
AttrValues == {Absent, <<" ", "1">>}

AttrTrees(n) ==
    UNION {
      {a \in [1..k -> [Name : AttrNames, value : AttrValues, depth : 1..k]] :
          /\ k > 0 => a[1].depth = 1
          /\ \A i \in 2..k : a[i].depth <= a[i - 1].depth + 1}
      : k \in 0..n}

\* str.strip(), of blanks
RECURSIVE strip(_)
strip(s) ==
    IF s # Empty /\ s[1] = " " THEN strip(Tail(s))
    ELSE IF s # Empty /\ s[Len(s)] = " " THEN strip(SubSeq(s, 1, Len(s) - 1))
    ELSE s

\* attr.get('Name', default)
GetName(node, default) == IF node.Name = NONE THEN default ELSE node.Name

\* attr.findall('.//caex:Attribute'): the positions below i, in document order
NestedAttrs(a, i) == SortedSeq({j \in DOMAIN a : InSubtree(a, i, j)})

\* lines 111-117: the loop over the nested attributes js of the attribute
\* named attr_name
RECURSIVE nested_loop(_, _, _, _)
nested_loop(row, a, attr_name, js) ==
    IF js = <<>> THEN row
    ELSE LET nested_attr      == a[Head(js)]
             full_nested_name == attr_name \o "." \o GetName(nested_attr, "NestedAttr")
         IN  nested_loop(IF nested_attr.value # Absent
                         THEN Put(row, full_nested_name, strip(nested_attr.value))
                         ELSE row,
                         a, attr_name, Tail(js))

\* lines 103-117: the body of the loop for the attribute at position i
flatten_attr(row, a, i) ==
    LET attr_name == GetName(a[i], "UnknownAttr")
        own       == IF a[i].value # Absent
                     THEN Put(row, attr_name, strip(a[i].value))
                     ELSE row
    IN  nested_loop(own, a, attr_name, NestedAttrs(a, i))

\* lines 96-99
NewRowData == [DeviceName |-> Rack_0, DeviceType |-> <<"R">>, InterfaceName |-> SigA]

AttrInit ==
    /\ attrs \in AttrTrees(MaxAttrs)
    /\ apc = "loop" /\ apos = 0 /\ row_data = NewRowData
    /\ doc = <<>> /\ ppc = "idle" /\ dpos = 0 /\ prows = <<>>
    /\ FilterIdle /\ ExportIdle

\* lines 102-117: interface.findall('.//caex:Attribute') hands every
\* Attribute node below the interface to the loop, nested ones included
FlattenAttr ==
    /\ apc = "loop"
    /\ apos < Len(attrs)
    /\ apos' = apos + 1
    /\ row_data' = flatten_attr(row_data, attrs, apos + 1)
    /\ UNCHANGED <<attrs, apc, doc, ppc, dpos, prows, filterVars, exportVars>>

\* line 120
AppendRow ==
    /\ apc = "loop"
    /\ apos = Len(attrs)
    /\ apc' = "done"
    /\ UNCHANGED <<attrs, apos, row_data, doc, ppc, dpos, prows,
                   filterVars, exportVars>>

AttrNext == FlattenAttr \/ AppendRow

SpecAttrs == AttrInit /\ [][AttrNext]_vars

---------------------------------------------------------------------------
(* Claims on the attribute loop.                                           *)

\* The nearest attribute above node j, or 0 for a top-level attribute.
ParentAttr(j) ==
    LET above == {i \in DOMAIN attrs : InSubtree(attrs, i, j)}
    IN  IF above = {} THEN 0 ELSE CHOOSE i \in above : \A k \in above : k <= i

\* The claim's key of node j: the names from the top-level attribute down to
\* j, joined by dots.
RECURSIVE PathKey(_)
PathKey(j) ==
    IF ParentAttr(j) = 0 THEN GetName(attrs[j], "UnknownAttr")
    ELSE PathKey(ParentAttr(j)) \o "." \o GetName(attrs[j], "NestedAttr")

Valued == {j \in DOMAIN attrs : attrs[j].value # Absent}

\* C12: when the row of an interface is appended, its keys beside the three
\* fixed ones are exactly the dotted path keys of its attributes that have
\* value text ("A", "A.C", "A.C.D", ...): a nested attribute is stored under
\* its path key only, an attribute without value text creates no key, and
\* each key holds the stripped value text of an attribute of that path.
C12_FlattenByPath ==
    apc = "done" =>
        /\ DOMAIN row_data \ DOMAIN NewRowData = {PathKey(j) : j \in Valued}
        /\ \A k \in DOMAIN row_data \ DOMAIN NewRowData :
              \E j \in Valued : PathKey(j) = k /\ row_data[k] = strip(attrs[j].value)

===========================================================================
